---- MODULE Spec2Model ----
(***************************************************************************)
(* PulseEcho backend (Innov2k26): the /analyze and /mock-analyze handlers  *)
(* of app.py, the classifier selection of core/ml_client.py, the local     *)
(* predictor of ml_model/model_loader.py and the persistence and alerting  *)
(* collaborators, as a state machine.                                      *)
(*                                                                         *)
(* Python values are tagged tuples, so that None, numbers, texts and dicts *)
(* can be told apart the way the interpreter tells them apart.  Text that  *)
(* the code inspects character by character (labels, file names, form      *)
(* fields, environment variables) is a sequence of one-character strings;  *)
(* text that is only copied or compared whole is an atomic string.         *)
(* Confidences are integers in units of 1/10000.                           *)
(***************************************************************************)
EXTENDS Integers, Sequences, FiniteSets, TLC

(***************************************************************************)
(* Bounds of the model.                                                    *)
(***************************************************************************)
\* requests one worker serves before the model stops it
MaxRequests == 2
\* distinct values uuid.uuid4() is drawn from
MaxUuid == 2

(***************************************************************************)
(* Python values.                                                          *)
(***************************************************************************)
PyNone == <<"None">>
PyBool(b) == <<"bool", b>>
PyInt(n) == <<"int", n>>
PyStr(s) == <<"str", s>>
PyText(cs) == <<"text", cs>>
PyList(xs) == <<"list", xs>>
PyDict(d) == <<"dict", d>>

IsNone(v) == v[1] = "None"
IsDict(v) == v[1] = "dict"

\* bool(v)
Truthy(v) ==
  CASE v[1] = "None" -> FALSE
    [] v[1] = "bool" -> v[2]
    [] v[1] = "int" -> v[2] # 0
    [] v[1] = "str" -> v[2] # ""
    [] v[1] = "text" -> Len(v[2]) > 0
    [] v[1] = "list" -> Len(v[2]) > 0
    [] v[1] = "dict" -> DOMAIN v[2] # {}
    [] OTHER -> TRUE

EmptyDict == [k \in {} |-> PyNone]

\* d.get(k, default) on the mapping of a dict
DictGet(d, k, default) == IF k \in DOMAIN d THEN d[k] ELSE default

\* d[k] = v
DictSet(d, k, v) == [x \in DOMAIN d \cup {k} |-> IF x = k THEN v ELSE d[x]]

(***************************************************************************)
(* str.lower, str.rsplit('.', 1) and int() on character sequences.         *)
(***************************************************************************)
UpperCase == <<"A","B","C","D","E","F","G","H","I","J","K","L","M",
               "N","O","P","Q","R","S","T","U","V","W","X","Y","Z">>
LowerCase == <<"a","b","c","d","e","f","g","h","i","j","k","l","m",
               "n","o","p","q","r","s","t","u","v","w","x","y","z">>

CharLower(c) ==
  IF \E i \in 1..26 : UpperCase[i] = c
  THEN LowerCase[CHOOSE i \in 1..26 : UpperCase[i] = c]
  ELSE c

\* s.lower()
StrLower(s) == [i \in 1..Len(s) |-> CharLower(s[i])]

Digits == <<"0","1","2","3","4","5","6","7","8","9">>
IsDigit(c) == \E i \in 1..10 : Digits[i] = c
DigitVal(c) == (CHOOSE i \in 1..10 : Digits[i] = c) - 1

RECURSIVE DigitsVal(_)
DigitsVal(s) ==
  IF Len(s) = 0 THEN 0
  ELSE 10 * DigitsVal(SubSeq(s, 1, Len(s) - 1)) + DigitVal(s[Len(s)])

\* request.form.get(key, type=int): the converted value, None when the key
\* is absent or int() raises ValueError
FormGetInt(form, key) ==
  IF key \notin DOMAIN form THEN PyNone
  ELSE LET s == form[key][2] IN
       IF Len(s) > 0 /\ \A i \in 1..Len(s) : IsDigit(s[i])
       THEN PyInt(DigitsVal(s))
       ELSE IF Len(s) > 1 /\ s[1] \in {"-", "+"}
               /\ \A i \in 2..Len(s) : IsDigit(s[i])
            THEN PyInt((IF s[1] = "-" THEN -1 ELSE 1) * DigitsVal(Tail(s)))
            ELSE PyNone

(***************************************************************************)
(* Labels, tiers and confidences.                                          *)
(***************************************************************************)
T_normal == <<"n","o","r","m","a","l">>
T_abnormal == <<"a","b","n","o","r","m","a","l">>
T_murmur == <<"m","u","r","m","u","r">>
T_unknown == <<"u","n","k","n","o","w","n">>
T_unknown_label == <<"u","n","k","n","o","w","n","_","l","a","b","e","l">>
T_Normal == <<"N","o","r","m","a","l">>
T_Abnormal == <<"A","b","n","o","r","m","a","l">>
T_Murmur == <<"M","u","r","m","u","r">>
T_NORMAL == <<"N","O","R","M","A","L">>
T_aBnOrMaL == <<"a","B","n","O","r","M","a","L">>
T_MURMUR == <<"M","U","R","M","U","R">>

\* values of random.uniform(0.6, 0.95) after round(., 3)
MockConfidences == {6000, 9500}
\* values of random.uniform(0.7, 0.95) after round(., 3)
MockPredictionConfidences == {7000, 9500}
\* values of the largest softmax output after round(., 4)
SoftmaxConfidences == {5000, 10000}

(***************************************************************************)
(* ml_model/model_loader.py: HeartSoundModel.__init__                      *)
(***************************************************************************)
\* model_info when model_info.json does not exist
DefaultModelInfo ==
  [k \in {"model_name", "classes"} |->
     IF k = "classes" THEN PyList(<<T_normal, T_abnormal>>)
     ELSE PyStr("Heart Sound CNN")]

\* contents of model_info.json, when it exists
ModelInfoFiles ==
  { [k \in {"classes"} |-> PyList(<<T_Normal, T_aBnOrMaL, T_Murmur>>)],
    [k \in {"classes"} |-> PyList(<<T_NORMAL, T_Abnormal, T_MURMUR>>)],
    [k \in {"classes"} |-> PyList(<<T_murmur, T_unknown_label>>)] }

\* a keras model with n outputs: the model _create_new_model builds ends in
\* Dense(2); a model loaded from heart_sound_cnn.h5 has the outputs it was
\* saved with
NewModel == <<"keras", 2>>
LoadedModels == {<<"keras", 3>>}

\* what the constructor finds on disk and whether building or loading the
\* network succeeds; a file that is too small or cannot be loaded is handled
\* like a missing one and differs from it by the note alone
ModelFiles == {"missing", "loadable"}

\* HeartSoundModel(): the object, or "raised" when the constructor raises
\* (model_info.json unreadable or unwritable)
HeartSoundModel__init__(info_file, info_ok, model_file, loaded, create_ok) ==
  IF ~info_ok THEN <<"raised">>
  ELSE LET info == IF IsNone(info_file) THEN DefaultModelInfo ELSE info_file[2]
           created == IF create_ok THEN NewModel ELSE PyNone
           model == CASE model_file = "missing" -> created
                      [] model_file = "too_small" -> created
                      [] model_file = "loadable" -> loaded
                      [] model_file = "unloadable" -> created
           note == CASE model_file = "missing" -> "New model created - original file missing"
                     [] model_file = "too_small" -> "New model created - original file corrupted"
                     [] model_file = "loadable" -> "Loaded from existing file"
                     [] model_file = "unloadable" -> "New model created - load error"
       IN <<"HeartSoundModel",
            [model |-> model, model_info |-> DictSet(info, "note", PyStr(note))]>>

\* HeartSoundModel.get_model_info
get_model_info(local_model_) == PyDict(local_model_[2].model_info)

(***************************************************************************)
(* core/ml_client.py: MLClient.__init__                                    *)
(***************************************************************************)
T_true == <<"t","r","u","e">>
\* os.getenv values: None when the variable is not set
EnvUseRealMl == {PyNone, PyText(T_true), PyText(<<"T","r","u","e">>),
                 PyText(<<"f","a","l","s","e">>), PyText(<<"1">>)}
EnvMlApiUrl == {PyNone, PyStr(""), PyStr("http://ml.example/predict")}

\* the fields of the MLClient after construction; hsm is the outcome of
\* HeartSoundModel()
MLClient__init__(env_use, env_url, has_local_model, hsm) ==
  LET use == StrLower(IF IsNone(env_use) THEN <<"f","a","l","s","e">> ELSE env_use[2]) = T_true
  IN [ use_real_ml |-> use,
       ml_api_url |-> IF IsNone(env_url) THEN PyStr("") ELSE env_url,
       local_model |-> IF ~use /\ has_local_model /\ hsm # <<"raised">>
                       THEN hsm ELSE PyNone ]

(***************************************************************************)
(* app.py: configuration and requests.                                     *)
(***************************************************************************)
F_a_wav == <<"a",".","w","a","v">>
F_b_WAV == <<"b",".","W","A","V">>
F_a_txt == <<"a",".","t","x","t">>
F_wav == <<"w","a","v">>
F_a_wav_txt == <<"a",".","w","a","v",".","t","x","t">>

ALLOWED_EXTENSIONS == {<<"w","a","v">>, <<"m","p","3">>, <<"m","4","a">>}
UPLOAD_FOLDER == "uploads"

\* filename.rsplit('.', 1)[1], for a filename that contains a dot
RSplitDot1(filename) ==
  LET i == CHOOSE j \in 1..Len(filename) :
             filename[j] = "." /\ \A k \in (j+1)..Len(filename) : filename[k] # "."
  IN SubSeq(filename, i + 1, Len(filename))

\* allowed_file without the .lower() of line 87
allowed_file_NoLower(filename) ==
  /\ \E j \in 1..Len(filename) : filename[j] = "."
  /\ RSplitDot1(filename) \in ALLOWED_EXTENSIONS

allowed_file(filename) ==
  /\ \E j \in 1..Len(filename) : filename[j] = "."
  /\ StrLower(RSplitDot1(filename)) \in ALLOWED_EXTENSIONS

\* werkzeug's secure_filename on ASCII names: only letters, digits and "_.-"
\* are kept
SafeChar(c) ==
  \/ \E i \in 1..26 : c \in {UpperCase[i], LowerCase[i]}
  \/ IsDigit(c)
  \/ c \in {"_", ".", "-"}
secure_filename(filename) == SelectSeq(filename, SafeChar)

\* request.files of a POST /analyze
AnalyzeFiles ==
  { EmptyDict } \cup
  { [k \in {"audio"} |-> PyText(f)] : f \in {<<>>, F_a_wav, F_b_WAV, F_a_txt, F_wav, F_a_wav_txt} }

\* request.form of a POST /analyze: the optional fields are age and phone
FormAges == {PyNone, PyText(<<"3","5">>), PyText(<<"6","0">>), PyText(<<"x">>)}
FormPhones == {PyNone, PyText(<<"+","1","5","5","5">>)}
FormOf(age, phone) ==
  [k \in {"patient_id", "patient_name"}
         \cup (IF IsNone(age) THEN {} ELSE {"age"})
         \cup (IF IsNone(phone) THEN {} ELSE {"phone"}) |->
     CASE k = "patient_id" -> PyStr("P001")
       [] k = "patient_name" -> PyStr("Asha")
       [] k = "age" -> age
       [] k = "phone" -> phone]
AnalyzeForms == { FormOf(a, p) : a \in FormAges, p \in FormPhones }

\* the body of a POST /mock-analyze: JSON, or form data, which is not JSON
NotJson == <<"NotJson">>
JsonBody(v) == [form |-> EmptyDict, json |-> v]
FormBody(f) == [form |-> f, json |-> NotJson]
MockAnalyzeBodies ==
  { JsonBody(PyDict(EmptyDict)) }
    \cup { JsonBody(PyDict([k \in {"age"} |-> a])) :
             a \in {PyInt(60), PyNone, PyText(<<"5">>)} }
    \cup { FormBody(FormOf(PyText(<<"5">>), PyNone)) }

Handlers == {1}

\* the server's workers: requests are served one at a time by worker 1, or
\* by two workers at once
Workers == {1, 2}

Min(a, b) == IF a < b THEN a ELSE b

VARIABLES
  use_real_ml,      \* MLClient.use_real_ml
  ml_api_url,       \* MLClient.ml_api_url
  local_model,      \* MLClient.local_model
  supabase,         \* core.database.supabase: None or the connected client
  served,           \* requests answered so far
  pc,               \* pc[h]: where handler h stands
  request,          \* request[h]: the request handler h is serving
  unique_filename,  \* locals of the handlers, by handler
  audio_path,
  patient_context,
  model_result,     \* `result` of MLClient.analyze_heart_sound
  ml_result,
  screening_data,
  db_result,
  response,         \* response[h]: what handler h returned
  calls,            \* calls[h]: what handler h has called so far, in order
  remote_failures,  \* requests so far in which the remote API failed
  uploads           \* the names audio_file.save was called with, in order

cfgvars == <<use_real_ml, ml_api_url, local_model, supabase>>
vars == <<use_real_ml, ml_api_url, local_model, supabase, served, pc, request,
          unique_filename, audio_path, patient_context, model_result, ml_result,
          screening_data, db_result, response, calls, remote_failures,
          uploads>>

Idle == [h \in Workers |-> PyNone]

\* request[h] and response[h] of a worker that serves no request
NoRequest == [endpoint |-> "", files |-> EmptyDict, form |-> EmptyDict, json |-> PyNone]
NoResponse == [status |-> 0, body |-> PyNone]

Init ==
  /\ \E env_use \in EnvUseRealMl, env_url \in EnvMlApiUrl,
        has_local_model \in BOOLEAN,
        info_file \in {PyNone} \cup {PyDict(f) : f \in ModelInfoFiles},
        info_ok \in BOOLEAN, model_file \in ModelFiles,
        loaded \in LoadedModels, create_ok \in BOOLEAN :
       LET c == MLClient__init__(env_use, env_url, has_local_model,
                  HeartSoundModel__init__(info_file, info_ok, model_file,
                                          loaded, create_ok))
       IN /\ use_real_ml = c.use_real_ml
          /\ ml_api_url = c.ml_api_url
          /\ local_model = c.local_model
  /\ supabase \in {PyNone, PyStr("client")}
  /\ served = 0
  /\ pc = [h \in Workers |-> "idle"]
  /\ request = [h \in Workers |-> NoRequest]
  /\ unique_filename = Idle
  /\ audio_path = Idle
  /\ patient_context = Idle
  /\ model_result = Idle
  /\ ml_result = Idle
  /\ screening_data = Idle
  /\ db_result = Idle
  /\ response = [h \in Workers |-> NoResponse]
  /\ calls = [h \in Workers |-> <<>>]
  /\ remote_failures = 0
  /\ uploads = <<>>

\* jsonify(body), status
Respond(h, status, body) ==
  /\ response' = [response EXCEPT ![h] = [status |-> status, body |-> body]]
  /\ pc' = [pc EXCEPT ![h] = "done"]

ErrorBody(msg) == PyDict([k \in {"error"} |-> PyStr(msg)])

(***************************************************************************)
(* app.py: POST /analyze, up to the call of the classifier.                *)
(***************************************************************************)
\* the requests being served
InFlight == Cardinality({w \in Workers : pc[w] # "idle"})

\* a POST /analyze, with files and form from the given sets, arrives at an
\* idle worker
Analyze_Arrive(h, files_, forms_) ==
  /\ pc[h] = "idle"
  /\ served + InFlight < MaxRequests
  /\ \E files \in files_, form \in forms_ :
       request' = [request EXCEPT ![h] =
                     [endpoint |-> "/analyze", files |-> files, form |-> form,
                      json |-> PyNone]]
  /\ pc' = [pc EXCEPT ![h] = "validate"]
  /\ UNCHANGED <<uploads, remote_failures, cfgvars, served, unique_filename,
                 audio_path, patient_context, model_result, ml_result,
                 screening_data, db_result, response, calls>>

Analyze_Receive(h) == Analyze_Arrive(h, AnalyzeFiles, AnalyzeForms)

\* lines 106-116
Analyze_Validate(h) ==
  /\ pc[h] = "validate"
  /\ LET files == request[h].files IN
       IF "audio" \notin DOMAIN files
       THEN Respond(h, 400, ErrorBody("No audio file provided"))
       ELSE IF files["audio"][2] = <<>>
       THEN Respond(h, 400, ErrorBody("No selected file"))
       ELSE IF ~allowed_file(files["audio"][2])
       THEN Respond(h, 400, ErrorBody("File type not allowed. Use WAV, MP3, or M4A"))
       ELSE /\ pc' = [pc EXCEPT ![h] = "store"]
            /\ UNCHANGED response
  /\ UNCHANGED <<uploads, remote_failures, cfgvars, served, request, unique_filename, audio_path,
                 patient_context, model_result, ml_result, screening_data,
                 db_result, calls>>

\* uuid.uuid4(): the value of draw number drawn + 1; no two draws give the
\* same value
uuid4(drawn) == drawn + 1

HexDigits == <<"0","1","2","3","4","5","6","7","8","9","a","b","c","d","e","f">>
UuidHexLen == 32

\* UUID.hex: 32 hexadecimal digits, the version digit 4 and the variant
\* digit among them
UuidHex(u) ==
  [i \in 1..UuidHexLen |->
     IF i = 13 THEN "4"
     ELSE IF i = 17 THEN "8"
     ELSE IF i <= UuidHexLen - 7 THEN "0"
     ELSE HexDigits[((u \div (16 ^ (UuidHexLen - i))) % 16) + 1]]

\* lines 119-120: the two values the f-string of unique_filename is made of,
\* the uuid and the sanitized filename
UniqueFilename(u, filename) == <<u, secure_filename(filename)>>

\* FilenameText without the uuid component
FilenameText_NoUuid(name) == name[2]

\* line 120: the text of f"{uuid.uuid4().hex}_{filename}"
FilenameText(name) == UuidHex(name[1]) \o <<"_">> \o name[2]

\* lines 118-125: the name is generated and the upload is written; save_ok is
\* whether audio_file.save returns or raises.  uuid4 is drawn once for each
\* call of save, so the draws so far are as many as the names in uploads.
Analyze_Store(h) ==
  /\ pc[h] = "store"
  /\ Len(uploads) < MaxUuid
  /\ \E save_ok \in BOOLEAN :
       LET name == UniqueFilename(uuid4(Len(uploads)), request[h].files["audio"][2]) IN
       /\ unique_filename' = [unique_filename EXCEPT ![h] = name]
       /\ audio_path' = [audio_path EXCEPT ![h] = <<"path", UPLOAD_FOLDER, name>>]
       /\ uploads' = Append(uploads, name)
       /\ calls' = [calls EXCEPT ![h] = Append(@, <<"save_audio">>)]
       /\ pc' = [pc EXCEPT ![h] = IF save_ok THEN "context" ELSE "except"]
  /\ UNCHANGED <<remote_failures, cfgvars, served, request, patient_context, model_result,
                 ml_result, screening_data, db_result, response>>

\* request.form.get(key, '')
FormGet(form, key) == DictGet(form, key, PyStr(""))

\* AnalyzeContext with the form's phone copied into the context
AnalyzeContext_WithPhone(form) ==
  [k \in {"patient_id", "name", "age", "gender", "doctor_id", "symptoms",
          "phone"} |->
     CASE k = "patient_id" -> FormGet(form, "patient_id")
       [] k = "name" -> FormGet(form, "patient_name")
       [] k = "age" -> FormGetInt(form, "age")
       [] k = "gender" -> FormGet(form, "gender")
       [] k = "doctor_id" -> FormGet(form, "doctor_id")
       [] k = "symptoms" -> FormGet(form, "symptoms")
       [] k = "phone" -> FormGet(form, "phone")]

\* lines 127-143: the patient context built from the form
AnalyzeContext(form) ==
  [k \in {"patient_id", "name", "age", "gender", "doctor_id", "symptoms"} |->
     CASE k = "patient_id" -> FormGet(form, "patient_id")
       [] k = "name" -> FormGet(form, "patient_name")
       [] k = "age" -> FormGetInt(form, "age")
       [] k = "gender" -> FormGet(form, "gender")
       [] k = "doctor_id" -> FormGet(form, "doctor_id")
       [] k = "symptoms" -> FormGet(form, "symptoms")]

Analyze_Context(h) ==
  /\ pc[h] = "context"
  /\ patient_context' = [patient_context EXCEPT ![h] =
                           PyDict(AnalyzeContext(request[h].form))]
  /\ pc' = [pc EXCEPT ![h] = "ml_select"]
  /\ UNCHANGED <<uploads, remote_failures, cfgvars, served, request, unique_filename, audio_path,
                 model_result, ml_result, screening_data, db_result, response, calls>>

(***************************************************************************)
(* core/ml_client.py: MLClient.analyze_heart_sound                         *)
(***************************************************************************)
\* SelectVariant with `or` where the code has `and`
SelectVariant_Or(use_real_ml_, ml_api_url_, local_model_) ==
  IF use_real_ml_ \/ Truthy(ml_api_url_) THEN "remote"
  ELSE IF Truthy(local_model_) THEN "local"
  ELSE "mock"

\* SelectVariant that stops trying the remote API once it has failed
SelectVariant_Sticky(use_real_ml_, ml_api_url_, local_model_) ==
  IF use_real_ml_ /\ Truthy(ml_api_url_) /\ remote_failures = 0 THEN "remote"
  ELSE IF Truthy(local_model_) THEN "local"
  ELSE "mock"

\* lines 50-66: the variant the request is given to first
SelectVariant(use_real_ml_, ml_api_url_, local_model_) ==
  IF use_real_ml_ /\ Truthy(ml_api_url_) THEN "remote"
  ELSE IF Truthy(local_model_) THEN "local"
  ELSE "mock"

\* AfterClassify going to the alert without saving the screening
AfterClassify_SkipPersist(h) ==
  IF request[h].endpoint = "/analyze" THEN "alert" ELSE "mock_respond"

\* where the handler goes on when analyze_heart_sound returns
AfterClassify(h) ==
  IF request[h].endpoint = "/analyze" THEN "persist" ELSE "mock_respond"

ML_Select(h) ==
  /\ pc[h] = "ml_select"
  /\ LET v == SelectVariant(use_real_ml, ml_api_url, local_model) IN
       /\ pc' = [pc EXCEPT ![h] = v]
       /\ calls' = [calls EXCEPT ![h] =
                      IF v = "mock" THEN Append(@, <<"analyze_heart_sound">>)
                      ELSE @ \o << <<"analyze_heart_sound">>, <<v>> >>]
  /\ UNCHANGED <<uploads, remote_failures, cfgvars, served, request, unique_filename, audio_path,
                 patient_context, model_result, ml_result, screening_data,
                 db_result, response>>

(***************************************************************************)
(* MLClient._mock_analysis                                                 *)
(***************************************************************************)
MockPredictions == <<T_normal, T_abnormal, T_murmur>>

MockRiskMapping ==
  [k \in {T_normal, T_abnormal, T_murmur} |->
     CASE k = T_normal -> "low" [] k = T_abnormal -> "high" [] k = T_murmur -> "medium"]

MockRecommendations ==
  [k \in {"high", "medium", "low"} |->
     CASE k = "high" -> "Urgent consultation with cardiologist recommended."
       [] k = "medium" -> "Follow-up with healthcare provider advised."
       [] k = "low" -> "Regular check-up advised."]

\* the dict _mock_analysis returns when random.choice gives prediction and
\* the rounded random.uniform gives confidence
mock_analysis(prediction, confidence) ==
  LET risk_level == DictGet(MockRiskMapping, prediction, "medium") IN
  PyDict([k \in {"prediction", "confidence", "risk_level", "recommendation",
                 "ml_source", "note"} |->
     CASE k = "prediction" -> PyText(prediction)
       [] k = "confidence" -> PyInt(confidence)
       [] k = "risk_level" -> PyStr(risk_level)
       [] k = "recommendation" -> PyStr(DictGet(MockRecommendations, risk_level, ""))
       [] k = "ml_source" -> PyStr("mock")
       [] k = "note" -> PyStr("Using mock analysis - ML model not available")])

ML_Mock(h) ==
  /\ pc[h] = "mock"
  /\ \E i \in 1..Len(MockPredictions), c \in MockConfidences :
       ml_result' = [ml_result EXCEPT ![h] = mock_analysis(MockPredictions[i], c)]
  /\ calls' = [calls EXCEPT ![h] = Append(@, <<"mock">>)]
  /\ pc' = [pc EXCEPT ![h] = AfterClassify(h)]
  /\ UNCHANGED <<uploads, remote_failures, cfgvars, served, request, unique_filename, audio_path,
                 patient_context, model_result, screening_data, db_result, response>>

(***************************************************************************)
(* MLClient._call_external_ml_api                                          *)
(***************************************************************************)
RemoteBody(prediction, confidence, risk_level) ==
  PyDict([k \in {"prediction", "confidence", "risk_level", "recommendation",
                 "ml_source"} |->
     CASE k = "prediction" -> PyText(prediction)
       [] k = "confidence" -> PyInt(confidence)
       [] k = "risk_level" -> PyStr(risk_level)
       [] k = "recommendation" -> PyStr("Refer to cardiology.")
       [] k = "ml_source" -> PyStr("external_api")])

\* values response.json() returns for a 200 answer: whatever JSON the remote
\* service sends
RemoteBodies ==
  { RemoteBody(T_abnormal, 9100, "high"),
    RemoteBody(T_normal, 9100, "high"),
    RemoteBody(T_normal, 17000, "low"),
    RemoteBody(<<>>, 8000, "medium"),
    PyDict([k \in {"prediction"} |-> PyText(T_murmur)]),
    PyList(<<>>) }

\* what happens inside the try block once the audio file is open
\* <<what requests.post does, status_code, whether response.json() parses,
\*   its value>>
RemoteOutcomes ==
  { <<"timeout", 0, FALSE, PyNone>>, <<"transport_error", 0, FALSE, PyNone>>,
    <<"answer", 500, TRUE, PyNone>>, <<"answer", 404, FALSE, PyNone>>,
    <<"answer", 200, FALSE, PyNone>> }
  \cup { <<"answer", 200, TRUE, b>> : b \in RemoteBodies }

\* the timeout given to requests.post
RemoteTimeout == 30

\* call_external_ml_api without the status check of line 84
call_external_ml_api_AnyStatus(opened, outcome) ==
  IF ~opened THEN <<"fallback">>
  ELSE IF outcome[1] = "answer" /\ outcome[3]
  THEN outcome[4]
  ELSE <<"fallback">>

\* the return value of _call_external_ml_api: the body of a 200 answer, or
\* "fallback" when the except branch or the non-200 branch calls _mock_analysis
call_external_ml_api(opened, outcome) ==
  IF ~opened THEN <<"fallback">>
  ELSE IF outcome[1] = "answer" /\ outcome[2] = 200 /\ outcome[3]
  THEN outcome[4]
  ELSE <<"fallback">>

\* AfterRemoteFailure trying the remote API a second time
AfterRemoteFailure_Retry(h, outcome) ==
  IF \A i \in 1..Len(calls[h]) : calls[h][i][1] # "post" THEN "remote" ELSE "mock"

\* AfterRemoteFailure when requests.post is given no timeout and the server
\* never answers: the worker waits for ever
AfterRemoteFailure_NoTimeout(h, outcome) ==
  IF outcome[1] = "timeout" THEN "remote_wait" ELSE "mock"

\* lines 86-92: after a non-200 answer or an exception (the timeout of
\* line 81 included) the one thing done is `return self._mock_analysis(...)`
AfterRemoteFailure(h, outcome) == "mock"

ML_Remote(h) ==
  /\ pc[h] = "remote"
  /\ \E open_ok \in BOOLEAN, outcome \in RemoteOutcomes :
       \* open(None) raises TypeError
       LET opened == ~IsNone(audio_path[h]) /\ open_ok
           r == call_external_ml_api(opened, outcome)
       IN /\ calls' = [calls EXCEPT ![h] =
                         IF opened THEN Append(@, <<"post">> \o SubSeq(outcome, 1, 3))
                         ELSE Append(@, <<"open_failed">>)]
          /\ remote_failures' = IF r = <<"fallback">>
                                THEN Min(remote_failures + 1, MaxRequests)
                                ELSE remote_failures
          /\ IF r = <<"fallback">>
             THEN /\ pc' = [pc EXCEPT ![h] = AfterRemoteFailure(h, outcome)]
                  /\ UNCHANGED ml_result
             ELSE /\ ml_result' = [ml_result EXCEPT ![h] = r]
                  /\ pc' = [pc EXCEPT ![h] = AfterClassify(h)]
  /\ UNCHANGED <<uploads, cfgvars, served, request, unique_filename, audio_path,
                 patient_context, model_result, screening_data, db_result, response>>

(***************************************************************************)
(* ml_model/model_loader.py: HeartSoundModel.predict_from_audio            *)
(***************************************************************************)
\* self.model_info.get('classes', ['normal', 'abnormal'])
ClassNames(local_model_) ==
  DictGet(local_model_[2].model_info, "classes", PyList(<<T_normal, T_abnormal>>))[2]

PredictionDict(prediction, confidence, class_names, model_source) ==
  PyDict([k \in {"prediction", "confidence", "probabilities", "class_names",
                 "model_source"} |->
     CASE k = "prediction" -> PyText(prediction)
       [] k = "confidence" -> PyInt(confidence)
       [] k = "probabilities" -> PyList(<<>>)
       [] k = "class_names" -> PyList(class_names)
       [] k = "model_source" -> PyStr(model_source)])

\* _mock_prediction, when random.choice gives class_names[i]
mock_prediction(local_model_, i, confidence) ==
  PredictionDict(ClassNames(local_model_)[i], confidence, ClassNames(local_model_),
                 "mock_fallback")

\* predict_from_audio: predict_ok is whether the try block runs through,
\* class_idx (from 0) the argmax of the network's output, confidence its
\* rounded value; i and mock_confidence are the draws of _mock_prediction
predict_from_audio(local_model_, predict_ok, class_idx, confidence, i, mock_confidence) ==
  IF IsNone(local_model_[2].model) \/ ~predict_ok
  THEN mock_prediction(local_model_, i, mock_confidence)
  ELSE LET class_names == ClassNames(local_model_) IN
       PredictionDict(IF class_idx < Len(class_names)
                      THEN class_names[class_idx + 1] ELSE T_unknown,
                      confidence, class_names, "real_cnn_model")

\* the number of outputs of the network (1 when there is none: unused then)
Outputs(local_model_) ==
  IF IsNone(local_model_[2].model) THEN 1 ELSE local_model_[2].model[2]

ML_Local_Predict(h) ==
  /\ pc[h] = "local"
  /\ \E predict_ok \in BOOLEAN, class_idx \in 0..(Outputs(local_model) - 1),
        confidence \in SoftmaxConfidences,
        i \in 1..Len(ClassNames(local_model)),
        mock_confidence \in MockPredictionConfidences :
       /\ model_result' = [model_result EXCEPT ![h] =
            predict_from_audio(local_model, predict_ok, class_idx, confidence,
                               i, mock_confidence)]
       \* the second component: whether the network gave the prediction
       /\ calls' = [calls EXCEPT ![h] =
            Append(@, <<"predict", ~IsNone(local_model[2].model) /\ predict_ok>>)]
  /\ pc' = [pc EXCEPT ![h] = "local_result"]
  /\ UNCHANGED <<uploads, remote_failures, cfgvars, served, request, unique_filename, audio_path,
                 patient_context, ml_result, screening_data, db_result, response>>

(***************************************************************************)
(* MLClient._format_local_ml_result                                        *)
(***************************************************************************)
risk_mapping ==
  [k \in {T_normal, T_Normal, T_abnormal, T_Abnormal, T_murmur, T_Murmur} |->
     CASE k \in {T_normal, T_Normal} -> "low"
       [] k \in {T_abnormal, T_Abnormal} -> "high"
       [] k \in {T_murmur, T_Murmur} -> "medium"]

\* RiskLevel without the .lower() of line 109
RiskLevel_NoLower(prediction) == DictGet(risk_mapping, prediction, "medium")

\* line 109
RiskLevel(prediction) == DictGet(risk_mapping, StrLower(prediction), "medium")

recommendations ==
  [k \in {"high", "medium", "low"} |->
     CASE k = "high" -> "Urgent consultation with cardiologist recommended. Avoid strenuous activity and seek immediate medical attention if symptoms worsen."
       [] k = "medium" -> "Schedule a follow-up with healthcare provider. Monitor for symptoms like chest pain, shortness of breath, or fatigue."
       [] k = "low" -> "Regular check-up advised. Maintain healthy lifestyle with balanced diet and regular exercise."]

\* lines 118-123: the note, or "raised" when age > 50 raises TypeError
\* (age is None or not a number)
AnalysisNote(patient_context_, risk_level) ==
  IF ~Truthy(patient_context_) THEN PyStr("")
  ELSE LET age == DictGet(patient_context_[2], "age", PyInt(0)) IN
       IF age[1] # "int" THEN <<"raised", "TypeError">>
       ELSE IF age[2] > 50 /\ risk_level # "low"
            THEN PyStr("Patient is over 50, increased cardiovascular risk factors.")
            ELSE PyStr("")

\* the dict returned, or "raised"
format_local_ml_result(ml_result_, patient_context_, local_model_) ==
  LET prediction == ml_result_[2]["prediction"][2]
      confidence == ml_result_[2]["confidence"][2]
      risk_level == RiskLevel(prediction)
      analysis_note == AnalysisNote(patient_context_, risk_level)
  IN IF analysis_note[1] = "raised" THEN analysis_note
     ELSE PyDict([k \in {"prediction", "confidence", "risk_level", "recommendation",
                         "analysis_note", "probabilities", "class_names",
                         "ml_source", "model_info"} |->
       CASE k = "prediction" -> PyText(prediction)
         [] k = "confidence" -> PyInt(confidence)
         [] k = "risk_level" -> PyStr(risk_level)
         [] k = "recommendation" -> PyStr(DictGet(recommendations, risk_level, ""))
         [] k = "analysis_note" -> analysis_note
         [] k = "probabilities" ->
              DictGet(ml_result_[2], "probabilities", PyList(<<>>))
         [] k = "class_names" ->
              DictGet(ml_result_[2], "class_names", PyList(<<T_normal, T_abnormal>>))
         [] k = "ml_source" -> PyStr("local_cnn_model")
         [] k = "model_info" ->
              IF Truthy(local_model_) THEN get_model_info(local_model_)
              ELSE PyDict(EmptyDict)])

\* lines 59-62: `if result:` formats the prediction, else falls to the mock
ML_Local_Result(h) ==
  /\ pc[h] = "local_result"
  /\ IF Truthy(model_result[h])
     THEN LET r == format_local_ml_result(model_result[h], patient_context[h],
                                          local_model)
          IN IF r[1] = "raised"
             THEN /\ pc' = [pc EXCEPT ![h] = "except"]
                  /\ calls' = [calls EXCEPT ![h] = Append(@, <<"raise", r[2]>>)]
                  /\ UNCHANGED ml_result
             ELSE /\ ml_result' = [ml_result EXCEPT ![h] = r]
                  /\ pc' = [pc EXCEPT ![h] = AfterClassify(h)]
                  /\ UNCHANGED calls
     ELSE /\ pc' = [pc EXCEPT ![h] = "mock"]
          /\ UNCHANGED <<ml_result, calls>>
  /\ UNCHANGED <<uploads, remote_failures, cfgvars, served, request, unique_filename, audio_path,
                 patient_context, model_result, screening_data, db_result,
                 response>>

(***************************************************************************)
(* core/database.py: save_screening_result                                 *)
(***************************************************************************)
\* what supabase.table(...).insert(record).execute() does
InsertOutcomes == {"row_with_id", "row_without_id", "no_data", "exception"}

save_screening_result(screening_data_, supabase_, outcome) ==
  IF IsNone(supabase_)
  THEN [k \in {"success", "id", "note"} |->
          CASE k = "success" -> PyBool(TRUE)
            [] k = "id" -> PyStr("mock_id")
            [] k = "note" -> PyStr("Mock save - Supabase not connected")]
  ELSE IF outcome \in {"row_with_id", "row_without_id"}
  THEN [k \in {"success", "id", "message"} |->
          CASE k = "success" -> PyBool(TRUE)
            [] k = "id" -> IF outcome = "row_with_id" THEN PyInt(101) ELSE PyNone
            [] k = "message" -> PyStr("Screening saved successfully")]
  ELSE [k \in {"success", "error"} |->
          CASE k = "success" -> PyBool(FALSE)
            [] k = "error" -> PyStr(IF outcome = "no_data"
                                    THEN "Database insert failed" ELSE "exception")]

(***************************************************************************)
(* app.py: send_sms_alert.  core/sms_service.py defines send_alert_sms and *)
(* no send_sms_alert, so the import at line 61 raises ImportError and the  *)
(* name is bound to the stand-in of lines 65-66.                           *)
(***************************************************************************)
send_sms_alert(phone, message) ==
  [k \in {"success", "message"} |->
     CASE k = "success" -> PyBool(TRUE)
       [] k = "message" -> PyStr("Mock SMS sent")]

(***************************************************************************)
(* app.py: POST /analyze, after the classifier has returned.               *)
(***************************************************************************)
\* ScreeningData reading the patient context from one place shared by the
\* workers: the context of the first worker that serves an upload
ScreeningData_SharedContext(form, context, unique_filename_, ml_result_) ==
  LET shared == patient_context[CHOOSE w \in Workers :
                                   /\ IsDict(patient_context[w])
                                   /\ request[w].endpoint = "/analyze"][2] IN
  [k \in {"patient_id", "patient_name", "age", "gender", "doctor_id",
          "audio_filename", "prediction", "confidence", "risk_level",
          "recommendation", "ml_source", "symptoms"} |->
     CASE k = "patient_id" -> shared["patient_id"]
       [] k = "patient_name" -> shared["name"]
       [] k = "age" -> shared["age"]
       [] k = "gender" -> shared["gender"]
       [] k = "doctor_id" -> shared["doctor_id"]
       [] k = "symptoms" -> shared["symptoms"]
       [] k = "audio_filename" -> unique_filename_
       [] OTHER -> DictGet(ml_result_[2], k, PyNone)]

\* lines 150-164; ml_result_ is a dict
ScreeningData(form, context, unique_filename_, ml_result_) ==
  [k \in {"patient_id", "patient_name", "age", "gender", "doctor_id",
          "audio_filename", "prediction", "confidence", "risk_level",
          "recommendation", "ml_source", "symptoms"} |->
     CASE k = "patient_id" -> context["patient_id"]
       [] k = "patient_name" -> context["name"]
       [] k = "age" -> context["age"]
       [] k = "gender" -> context["gender"]
       [] k = "doctor_id" -> context["doctor_id"]
       [] k = "symptoms" -> context["symptoms"]
       [] k = "audio_filename" -> unique_filename_
       [] OTHER -> DictGet(ml_result_[2], k, PyNone)]

\* lines 149-167: ml_result.get raises AttributeError when the classifier
\* returned something that is no dict
Analyze_Persist(h) ==
  /\ pc[h] = "persist"
  /\ IF ~IsDict(ml_result[h])
     THEN /\ pc' = [pc EXCEPT ![h] = "except"]
          /\ UNCHANGED <<screening_data, db_result, calls>>
     ELSE \E outcome \in InsertOutcomes :
          LET data == ScreeningData(request[h].form, patient_context[h][2],
                                    unique_filename[h], ml_result[h])
          IN /\ screening_data' = [screening_data EXCEPT ![h] = PyDict(data)]
             /\ db_result' = [db_result EXCEPT ![h] =
                                PyDict(save_screening_result(data, supabase, outcome))]
             /\ calls' = [calls EXCEPT ![h] = Append(@, <<"save_screening_result">>)]
             /\ pc' = [pc EXCEPT ![h] = "alert"]
  /\ UNCHANGED <<uploads, remote_failures, cfgvars, served, request, unique_filename, audio_path,
                 patient_context, model_result, ml_result, response>>

\* AlertDue without the phone test of line 170
AlertDue_NoPhone(ml_result_, patient_context_) ==
  DictGet(ml_result_[2], "risk_level", PyNone) = PyStr("high")

\* line 170
AlertDue(ml_result_, patient_context_) ==
  /\ DictGet(ml_result_[2], "risk_level", PyNone) = PyStr("high")
  /\ Truthy(DictGet(patient_context_[2], "phone", PyNone))

\* lines 169-174
Analyze_Alert(h) ==
  /\ pc[h] = "alert"
  /\ IF AlertDue(ml_result[h], patient_context[h])
     THEN LET phone == DictGet(patient_context[h][2], "phone", PyNone)
              sms_result == send_sms_alert(phone, "Urgent: Your heart screening shows high risk.")
          IN /\ ml_result' = [ml_result EXCEPT ![h] =
                  PyDict(DictSet(@[2], "sms_sent",
                                 DictGet(sms_result, "success", PyBool(FALSE))))]
             /\ calls' = [calls EXCEPT ![h] = Append(@, <<"send_sms_alert">>)]
     ELSE UNCHANGED <<ml_result, calls>>
  /\ pc' = [pc EXCEPT ![h] = "respond"]
  /\ UNCHANGED <<uploads, remote_failures, cfgvars, served, request, unique_filename, audio_path,
                 patient_context, model_result, screening_data, db_result, response>>

\* Analyze_Respond answering 500 when the row was not saved
Analyze_Respond_FailOnDb(h) ==
  /\ pc[h] = "respond"
  /\ IF DictGet(db_result[h][2], "success", PyNone) = PyBool(FALSE)
     THEN /\ Respond(h, 500, ErrorBody("Database insert failed"))
          /\ UNCHANGED ml_result
     ELSE LET body == DictSet(DictSet(ml_result[h][2], "screening_id",
                                      DictGet(db_result[h][2], "id", PyStr(""))),
                              "audio_file", unique_filename[h])
          IN /\ ml_result' = [ml_result EXCEPT ![h] = PyDict(body)]
             /\ Respond(h, 200, PyDict(body))
  /\ UNCHANGED <<uploads, remote_failures, cfgvars, served, request, unique_filename, audio_path,
                 patient_context, model_result, screening_data, db_result, calls>>

\* lines 176-180
Analyze_Respond(h) ==
  /\ pc[h] = "respond"
  /\ LET body == DictSet(DictSet(ml_result[h][2], "screening_id",
                                 DictGet(db_result[h][2], "id", PyStr(""))),
                         "audio_file", unique_filename[h])
     IN /\ ml_result' = [ml_result EXCEPT ![h] = PyDict(body)]
        /\ Respond(h, 200, PyDict(body))
  /\ UNCHANGED <<uploads, remote_failures, cfgvars, served, request, unique_filename, audio_path,
                 patient_context, model_result, screening_data, db_result, calls>>

\* lines 182-184 and 204-205: the handler's `except Exception`
Handler_Except(h) ==
  /\ pc[h] = "except"
  /\ Respond(h, 500, ErrorBody("exception"))
  /\ UNCHANGED <<uploads, remote_failures, cfgvars, served, request, unique_filename, audio_path,
                 patient_context, model_result, ml_result, screening_data,
                 db_result, calls>>

\* the response is sent and the handler's locals are gone
Handler_Return(h) ==
  /\ pc[h] = "done"
  /\ served' = served + 1
  /\ pc' = [pc EXCEPT ![h] = "idle"]
  /\ request' = [request EXCEPT ![h] = NoRequest]
  /\ unique_filename' = [unique_filename EXCEPT ![h] = PyNone]
  /\ audio_path' = [audio_path EXCEPT ![h] = PyNone]
  /\ patient_context' = [patient_context EXCEPT ![h] = PyNone]
  /\ model_result' = [model_result EXCEPT ![h] = PyNone]
  /\ ml_result' = [ml_result EXCEPT ![h] = PyNone]
  /\ screening_data' = [screening_data EXCEPT ![h] = PyNone]
  /\ db_result' = [db_result EXCEPT ![h] = PyNone]
  /\ response' = [response EXCEPT ![h] = NoResponse]
  /\ calls' = [calls EXCEPT ![h] = <<>>]
  /\ UNCHANGED <<uploads, remote_failures, cfgvars>>

(***************************************************************************)
(* app.py: POST /mock-analyze                                              *)
(***************************************************************************)
\* a POST /mock-analyze, with a body from the given set, arrives at an idle
\* worker
MockAnalyze_Arrive(h, bodies_) ==
  /\ pc[h] = "idle"
  /\ served + InFlight < MaxRequests
  /\ \E body \in bodies_ :
       request' = [request EXCEPT ![h] =
                     [endpoint |-> "/mock-analyze", files |-> EmptyDict,
                      form |-> body.form, json |-> body.json]]
  /\ pc' = [pc EXCEPT ![h] = "mock_context"]
  /\ UNCHANGED <<uploads, remote_failures, cfgvars, served, unique_filename,
                 audio_path, patient_context, model_result, ml_result,
                 screening_data, db_result, response, calls>>

MockAnalyze_Receive(h) == MockAnalyze_Arrive(h, MockAnalyzeBodies)

\* line 190, request.get_json(): the parsed body; for a body that is not
\* JSON, None (Flask before 2.1) or UnsupportedMediaType raised (Flask 2.1
\* and later), the repository pinning no version
get_json(json) ==
  IF json = NotJson
  THEN {PyNone, <<"raised", "UnsupportedMediaType">>}
  ELSE {json}

\* lines 190-197
MockAnalyzeContext(json) ==
  LET data == IF Truthy(json) THEN json[2] ELSE EmptyDict IN
  [k \in {"patient_id", "age", "gender", "symptoms"} |->
     CASE k = "patient_id" -> DictGet(data, "patient_id", PyStr("TEST001"))
       [] k = "age" -> DictGet(data, "age", PyInt(35))
       [] k = "gender" -> DictGet(data, "gender", PyStr("male"))
       [] k = "symptoms" -> DictGet(data, "symptoms", PyStr(""))]

\* lines 190-200: the classifier is called with audio_path None
MockAnalyze_Context(h) ==
  /\ pc[h] = "mock_context"
  /\ \E data \in get_json(request[h].json) :
       IF data[1] = "raised"
       THEN /\ pc' = [pc EXCEPT ![h] = "except"]
            /\ UNCHANGED patient_context
       ELSE /\ patient_context' = [patient_context EXCEPT ![h] =
                                     PyDict(MockAnalyzeContext(data))]
            /\ pc' = [pc EXCEPT ![h] = "ml_select"]
  /\ audio_path' = [audio_path EXCEPT ![h] = PyNone]
  /\ UNCHANGED <<uploads, remote_failures, cfgvars, served, request, unique_filename, model_result,
                 ml_result, screening_data, db_result, response, calls>>

\* line 202
MockAnalyze_Respond(h) ==
  /\ pc[h] = "mock_respond"
  /\ Respond(h, 200, ml_result[h])
  /\ UNCHANGED <<uploads, remote_failures, cfgvars, served, request, unique_filename, audio_path,
                 patient_context, model_result, ml_result, screening_data,
                 db_result, calls>>

(***************************************************************************)
(* app.py: GET /health                                                     *)
(***************************************************************************)
\* ml_client.py lines 176-183
get_status(use_real_ml_, ml_api_url_, local_model_) ==
  [k \in {"use_real_ml", "has_local_model", "model_loaded",
          "external_api_configured"} |->
     CASE k = "use_real_ml" -> PyBool(use_real_ml_)
       [] k = "has_local_model" -> PyBool(~IsNone(local_model_))
       [] k = "model_loaded" -> PyBool(~IsNone(local_model_))
       [] k = "external_api_configured" -> PyBool(Truthy(ml_api_url_))]

T_healthy == <<"h","e","a","l","t","h","y">>
T_running == <<"P","u","l","s","e","E","c","h","o"," ","B","a","c","k","e",
               "n","d"," ","i","s"," ","r","u","n","n","i","n","g">>

\* lines 93-99; the timestamp is the clock's reading and the folder is the
\* absolute path of UPLOAD_FOLDER
HealthBody(ml_status) ==
  [k \in {"status", "timestamp", "ml_integration", "upload_folder",
          "message"} |->
     CASE k = "status" -> PyText(T_healthy)
       [] k = "timestamp" -> <<"datetime", "now">>
       [] k = "ml_integration" -> PyDict(ml_status)
       [] k = "upload_folder" -> <<"path", UPLOAD_FOLDER>>
       [] k = "message" -> PyText(T_running)]

\* lines 89-100: a GET /health arrives at an idle worker and is answered
health_check(h) ==
  /\ pc[h] = "idle"
  /\ served + InFlight < MaxRequests
  /\ request' = [request EXCEPT ![h] =
                   [endpoint |-> "/health", files |-> EmptyDict,
                    form |-> EmptyDict, json |-> PyNone]]
  /\ Respond(h, 200,
             PyDict(HealthBody(get_status(use_real_ml, ml_api_url,
                                          local_model))))
  /\ UNCHANGED <<uploads, remote_failures, cfgvars, served, unique_filename,
                 audio_path, patient_context, model_result, ml_result,
                 screening_data, db_result, calls>>

Next ==
  \E h \in Handlers :
    \/ health_check(h)
    \/ Analyze_Receive(h)
    \/ Analyze_Validate(h)
    \/ Analyze_Store(h)
    \/ Analyze_Context(h)
    \/ ML_Select(h)
    \/ ML_Remote(h)
    \/ ML_Local_Predict(h)
    \/ ML_Local_Result(h)
    \/ ML_Mock(h)
    \/ Analyze_Persist(h)
    \/ Analyze_Alert(h)
    \/ Analyze_Respond(h)
    \/ Handler_Except(h)
    \/ Handler_Return(h)
    \/ MockAnalyze_Receive(h)
    \/ MockAnalyze_Context(h)
    \/ MockAnalyze_Respond(h)

Spec == Init /\ [][Next]_vars

(***************************************************************************)
(* Two workers serving one request each, at once or one after the other.   *)
(* The classifier is the mock, the remote API, or a HeartSoundModel that   *)
(* was left without a network; the database is not connected; the requests *)
(* are a valid upload with one of two ages, an upload without audio, and   *)
(* the default /mock-analyze.                                              *)
(***************************************************************************)
ConcurrentFiles == { EmptyDict, [k \in {"audio"} |-> PyText(F_a_wav)] }
ConcurrentForms == { FormOf(PyText(<<"6","0">>), PyNone), FormOf(PyText(<<"3","5">>), PyNone) }
ConcurrentBodies == { JsonBody(PyDict(EmptyDict)) }

InitConcurrent ==
  /\ Init
  /\ supabase = PyNone
  /\ \/ use_real_ml /\ Truthy(ml_api_url)
     \/ ~use_real_ml /\ ~Truthy(ml_api_url) /\ IsNone(local_model)
     \/ /\ ~use_real_ml /\ ~Truthy(ml_api_url) /\ ~IsNone(local_model)
        /\ IsNone(local_model[2].model)
        /\ local_model[2].model_info["classes"] = DefaultModelInfo["classes"]

NextConcurrent ==
  \E h \in Workers :
    \/ Analyze_Arrive(h, ConcurrentFiles, ConcurrentForms)
    \/ Analyze_Validate(h)
    \/ Analyze_Store(h)
    \/ Analyze_Context(h)
    \/ ML_Select(h)
    \/ ML_Remote(h)
    \/ ML_Local_Predict(h)
    \/ ML_Local_Result(h)
    \/ ML_Mock(h)
    \/ Analyze_Persist(h)
    \/ Analyze_Alert(h)
    \/ Analyze_Respond(h)
    \/ Handler_Except(h)
    \/ MockAnalyze_Arrive(h, ConcurrentBodies)
    \/ MockAnalyze_Context(h)
    \/ MockAnalyze_Respond(h)

SpecConcurrent == InitConcurrent /\ [][NextConcurrent]_vars

(***************************************************************************)
(* One worker whose steps, once begun, are carried on: every call a        *)
(* handler makes returns, raises or times out, so a handler that can take  *)
(* its next step takes it.  The arrival of a request is not obliged.  The  *)
(* classifier is the mock, the remote API, or a HeartSoundModel that was   *)
(* left without a network.  Every step of a handler changes its pc, so    *)
(* fairness is stated on pc.                                               *)
(***************************************************************************)
InitLive ==
  /\ Init
  /\ \/ use_real_ml /\ Truthy(ml_api_url)
     \/ ~use_real_ml /\ ~Truthy(ml_api_url) /\ IsNone(local_model)
     \/ /\ ~use_real_ml /\ ~Truthy(ml_api_url) /\ ~IsNone(local_model)
        /\ IsNone(local_model[2].model)
        /\ local_model[2].model_info["classes"] = DefaultModelInfo["classes"]

\* the steps of a handler after the request has arrived
Progress(h) ==
  \/ Analyze_Validate(h)
  \/ Analyze_Store(h)
  \/ Analyze_Context(h)
  \/ ML_Select(h)
  \/ ML_Remote(h)
  \/ ML_Local_Predict(h)
  \/ ML_Local_Result(h)
  \/ ML_Mock(h)
  \/ Analyze_Persist(h)
  \/ Analyze_Alert(h)
  \/ Analyze_Respond(h)
  \/ Handler_Except(h)
  \/ Handler_Return(h)
  \/ MockAnalyze_Context(h)
  \/ MockAnalyze_Respond(h)

\* the uploads of SpecConcurrent, and one without an age
LiveForms == ConcurrentForms \cup { FormOf(PyNone, PyNone) }

NextLive ==
  \E h \in Handlers :
    \/ Analyze_Arrive(h, ConcurrentFiles, LiveForms)
    \/ MockAnalyze_Arrive(h, ConcurrentBodies)
    \/ Progress(h)

SpecLive ==
  InitLive /\ [][NextLive]_vars /\ \A h \in Handlers : WF_pc(Progress(h))

(***************************************************************************)
(* Observations used by the properties.                                    *)
(***************************************************************************)
Has(h, name) == \E i \in 1..Len(calls[h]) : calls[h][i][1] = name
Count(h, name) == Cardinality({i \in 1..Len(calls[h]) : calls[h][i][1] = name})

\* analyze_heart_sound has been entered for the request of h
Called(h) == Has(h, "analyze_heart_sound")

\* analyze_heart_sound has returned to the handler, which has not answered yet
Returned(h) == pc[h] \in {"persist", "alert", "respond", "mock_respond"}

\* the handler has answered 200
Answered(h) == pc[h] = "done" /\ response[h].status = 200

\* the remote API was attempted and did not give a readable 200 answer
RemoteFailed(h) ==
  \/ Has(h, "open_failed")
  \/ \E i \in 1..Len(calls[h]) :
       /\ calls[h][i][1] = "post"
       /\ ~(calls[h][i][2] = "answer" /\ calls[h][i][3] = 200 /\ calls[h][i][4])

Field(r, k) == DictGet(r[2], k, PyNone)

\* two characters that are the same letter, whatever their case
SameLetter(c, d) ==
  c = d \/ \E i \in 1..26 : {c, d} = {UpperCase[i], LowerCase[i]}
SameWord(a, b) ==
  Len(a) = Len(b) /\ \A i \in 1..Len(a) : SameLetter(a[i], b[i])

\* the documented table: normal -> low, abnormal -> high, murmur -> medium,
\* anything else -> medium
DocumentedTier(label) ==
  IF SameWord(label, T_normal) THEN "low"
  ELSE IF SameWord(label, T_abnormal) THEN "high"
  ELSE "medium"

(***************************************************************************)
(* C1: once analyze_heart_sound has been entered, the remote API has been  *)
(* attempted iff use_real_ml is true and ml_api_url is non-empty;          *)
(* otherwise the local model has been used iff a local model was loaded;   *)
(* otherwise the request is with the Mock variant.                         *)
(***************************************************************************)
C1_VariantByConfiguration ==
  \A h \in Handlers :
    Called(h) =>
      /\ Has(h, "remote") <=> (use_real_ml /\ ml_api_url # PyStr(""))
      /\ ~Has(h, "remote") => (Has(h, "local") <=> ~IsNone(local_model))
      /\ (~Has(h, "remote") /\ ~Has(h, "local")) =>
           (pc[h] = "mock" \/ Has(h, "mock"))

\* the remote flag is off, an endpoint is configured, and the local model is used
C1_Witness ==
  \E h \in Handlers :
    /\ Called(h) /\ Has(h, "local") /\ Has(h, "predict")
    /\ ~use_real_ml /\ ml_api_url # PyStr("")

(***************************************************************************)
(* C2: when the remote API was attempted and failed, the call does not     *)
(* raise and the outcome returned has prediction, confidence, risk_level   *)
(* and recommendation set and ml_source 'mock'.                            *)
(***************************************************************************)
CompleteMockOutcome(r) ==
  /\ IsDict(r)
  /\ \A k \in {"prediction", "confidence", "risk_level", "recommendation"} :
       k \in DOMAIN r[2] /\ ~IsNone(r[2][k])
  /\ Field(r, "ml_source") = PyStr("mock")

C2_RemoteFailureGivesMock ==
  \A h \in Handlers :
    RemoteFailed(h) =>
      /\ pc[h] \in {"mock", "persist", "alert", "respond", "mock_respond", "done"}
      /\ pc[h] # "mock" => CompleteMockOutcome(ml_result[h])
      /\ pc[h] = "done" => response[h].status = 200

\* a non-200 answer, and the request has been answered
C2_Witness ==
  \E h \in Handlers :
    /\ \E i \in 1..Len(calls[h]) : calls[h][i] = <<"post", "answer", 500, TRUE>>
    /\ Answered(h)

(***************************************************************************)
(* C3: no step changes use_real_ml, ml_api_url or local_model, and after   *)
(* requests in which the remote API failed a request that has entered      *)
(* analyze_heart_sound has again attempted the remote API.                 *)
(***************************************************************************)
C3_SelectionFixed ==
  /\ [][<<use_real_ml, ml_api_url, local_model>>' = <<use_real_ml, ml_api_url, local_model>>]_vars
  /\ [](\A h \in Handlers :
          (remote_failures > 0 /\ Called(h)) => Has(h, "remote"))

\* a second request attempts the remote API after the first one fell back
C3_Witness ==
  \E h \in Handlers :
    /\ served >= 1 /\ remote_failures >= 1
    /\ Has(h, "remote") /\ ~RemoteFailed(h) /\ pc[h] = "remote"

(***************************************************************************)
(* C4: when the local model is selected and its inference fails, the       *)
(* predictor returns an empty result, the Mock variant is substituted and  *)
(* the outcome returned has ml_source 'mock'.                              *)
(***************************************************************************)
LocalFailed(h) ==
  \E i \in 1..Len(calls[h]) : calls[h][i] = <<"predict", FALSE>>

C4_LocalFailureGivesMock ==
  \A h \in Handlers :
    (LocalFailed(h) /\ (Returned(h) \/ Answered(h))) =>
      /\ ~Truthy(model_result[h])
      /\ Has(h, "mock")
      /\ Field(ml_result[h], "ml_source") = PyStr("mock")

(***************************************************************************)
(* C5: the tier _format_local_ml_result gives is the documented one for    *)
(* the label whatever its case: 'low' for normal, 'high' for abnormal,     *)
(* 'medium' for murmur and for every other label.                          *)
(***************************************************************************)
FormattedLocally(h) ==
  /\ Returned(h) \/ Answered(h)
  /\ Has(h, "predict")
  /\ ~Has(h, "mock")

C5_TierIgnoresCase ==
  \A h \in Handlers :
    FormattedLocally(h) =>
      /\ Field(ml_result[h], "prediction") = Field(model_result[h], "prediction")
      /\ Field(ml_result[h], "risk_level") =
           PyStr(DocumentedTier(Field(model_result[h], "prediction")[2]))

\* an upper-case label that is no key of the table has been given its tier
C5_Witness ==
  \E h \in Handlers :
    /\ FormattedLocally(h)
    /\ Field(model_result[h], "prediction") = PyText(T_NORMAL)
    /\ Field(ml_result[h], "risk_level") = PyStr("low")

(***************************************************************************)
(* C6: in every outcome analyze_heart_sound returns, risk_level is one of  *)
(* low, medium, high and is the documented tier of the outcome's label.    *)
(***************************************************************************)
C6_TierFollowsLabel ==
  \A h \in Handlers :
    Returned(h) =>
      /\ IsDict(ml_result[h])
      /\ Field(ml_result[h], "prediction")[1] = "text"
      /\ Field(ml_result[h], "risk_level") =
           PyStr(DocumentedTier(Field(ml_result[h], "prediction")[2]))

(***************************************************************************)
(* C7: no outcome with a confidence outside [0,1] or an empty label is     *)
(* persisted or returned by /analyze.                                      *)
(***************************************************************************)
ValidOutcome(r) ==
  /\ IsDict(r)
  /\ Field(r, "confidence")[1] = "int"
  /\ Field(r, "confidence")[2] \in 0..10000
  /\ Field(r, "prediction")[1] = "text"
  /\ Field(r, "prediction")[2] # <<>>

C7_OnlyValidOutcomes ==
  \A h \in Handlers :
    /\ ~IsNone(screening_data[h]) => ValidOutcome(screening_data[h])
    /\ (Answered(h) /\ request[h].endpoint = "/analyze") =>
         ValidOutcome(response[h].body)

(***************************************************************************)
(* C8: an /analyze request whose tier is 'high' and whose form carries a   *)
(* non-empty phone has had exactly one alert dispatch when it is answered, *)
(* sms_sent is in the response, and prediction, confidence and risk_level  *)
(* are those the classifier produced.                                      *)
(***************************************************************************)
C8_HighRiskWithPhoneAlerts ==
  \A h \in Handlers :
    ( /\ Answered(h)
      /\ request[h].endpoint = "/analyze"
      /\ Field(response[h].body, "risk_level") = PyStr("high")
      /\ Truthy(DictGet(request[h].form, "phone", PyNone)) ) =>
      /\ Count(h, "send_sms_alert") = 1
      /\ "sms_sent" \in DOMAIN response[h].body[2]
      /\ \A k \in {"prediction", "confidence", "risk_level"} :
           Field(response[h].body, k) = Field(screening_data[h], k)

(***************************************************************************)
(* C9: for an /analyze request whose patient context has no phone or an    *)
(* empty one, or whose tier is not 'high', no alert is dispatched.         *)
(***************************************************************************)
AlertStepDone(h) ==
  \/ pc[h] = "respond"
  \/ Answered(h) /\ request[h].endpoint = "/analyze"

C9_NoAlertWithoutPhoneOrHigh ==
  \A h \in Handlers :
    ( /\ AlertStepDone(h)
      /\ \/ ~Truthy(Field(patient_context[h], "phone"))
         \/ Field(ml_result[h], "risk_level") # PyStr("high") ) =>
      /\ ~Has(h, "send_sms_alert")
      /\ "sms_sent" \notin DOMAIN ml_result[h][2]

\* the alert step has been passed with tier 'high' and no phone in the context
C9_Witness ==
  \E h \in Handlers :
    /\ AlertStepDone(h)
    /\ Field(ml_result[h], "risk_level") = PyStr("high")
    /\ ~Truthy(Field(patient_context[h], "phone"))
    /\ ~Has(h, "send_sms_alert")

(***************************************************************************)
(* C11.  A failed save (save_screening_result answers success false) never *)
(* fails /analyze: the handler goes on to the alert step, and the caller   *)
(* gets 200 with the classifier's prediction, confidence, risk_level and   *)
(* recommendation and the degraded screening identifier ''.                *)
(***************************************************************************)
SaveFailed(h) ==
  /\ IsDict(db_result[h])
  /\ DictGet(db_result[h][2], "success", PyNone) = PyBool(FALSE)

C11_SaveFailureIsSoft ==
  \A h \in Handlers :
    SaveFailed(h) =>
      /\ pc[h] \in {"alert", "respond", "done"}
      /\ pc[h] = "done" =>
           /\ response[h].status = 200
           /\ \A k \in {"prediction", "confidence", "risk_level", "recommendation"} :
                Field(response[h].body, k) = Field(screening_data[h], k)
           /\ Field(response[h].body, "screening_id") = PyStr("")
           /\ AlertDue(ml_result[h], patient_context[h]) <=> Has(h, "send_sms_alert")

C11_Witness ==
  \E h \in Handlers :
    /\ SaveFailed(h)
    /\ Answered(h)
    /\ Field(response[h].body, "prediction") = PyText(T_abnormal)
    /\ Field(response[h].body, "screening_id") = PyStr("")


(***************************************************************************)
(* C12.  A POST /analyze with no audio part, an empty filename, or an      *)
(* extension (after the last dot, whatever its case) outside wav, mp3, m4a *)
(* is answered 400 with an error only and nothing has been done for it: no *)
(* file stored, classifier not called, nothing saved, no alert.  Only a    *)
(* request whose extension is in the set gets past validation.             *)
(***************************************************************************)
\* the extension after the last dot is one of the allowed ones, in any case
ExtensionAccepted(f) ==
  \E i \in 1..Len(f) :
    /\ f[i] = "."
    /\ \A j \in (i+1)..Len(f) : f[j] # "."
    /\ \E e \in {<<"w","a","v">>, <<"m","p","3">>, <<"m","4","a">>} :
         SameWord(SubSeq(f, i + 1, Len(f)), e)

Invalid(files) ==
  \/ "audio" \notin DOMAIN files
  \/ files["audio"][2] = <<>>
  \/ ~ExtensionAccepted(files["audio"][2])

C12_InvalidRejectedWithoutEffect ==
  \A h \in Handlers :
    (pc[h] \notin {"idle", "validate"} /\ request[h].endpoint = "/analyze") =>
      IF Invalid(request[h].files)
      THEN /\ pc[h] = "done"
           /\ response[h].status = 400
           /\ DOMAIN response[h].body[2] = {"error"}
           /\ calls[h] = <<>>
           /\ \A v \in {unique_filename[h], audio_path[h], ml_result[h],
                        screening_data[h], db_result[h]} : v = PyNone
      ELSE ~(pc[h] = "done" /\ response[h].status = 400)

C12_Witness ==
  \E h \in Handlers :
    /\ pc[h] = "done"
    /\ request[h].endpoint = "/analyze"
    /\ "audio" \in DOMAIN request[h].files
    /\ request[h].files["audio"][2] = F_a_wav_txt
    /\ response[h].status = 400


(***************************************************************************)
(* C13.  Every /analyze request ends with exactly one of two answers: a    *)
(* complete screening response, where prediction, confidence, risk_level,  *)
(* recommendation, ml_source, screening_id and audio_file are all present  *)
(* and not null, or an error-only response with no result field; nothing   *)
(* in between, whatever the remote API's body and the collaborators do.    *)
(***************************************************************************)
ResultFields ==
  {"prediction", "confidence", "risk_level", "recommendation", "ml_source",
   "screening_id", "audio_file"}

CompleteResponse(r) ==
  /\ r.status = 200
  /\ \A k \in ResultFields : k \in DOMAIN r.body[2] /\ r.body[2][k] # PyNone

ErrorOnlyResponse(r) ==
  /\ r.status # 200
  /\ "error" \in DOMAIN r.body[2]
  /\ DOMAIN r.body[2] \cap ResultFields = {}

C13_CompleteOrErrorOnly ==
  \A h \in Handlers :
    (pc[h] = "done" /\ request[h].endpoint = "/analyze") =>
      (CompleteResponse(response[h]) \/ ErrorOnlyResponse(response[h]))


(***************************************************************************)
(* C14.  MLClient.analyze_heart_sound never raises: for every patient      *)
(* context the handlers can build (age null or absent included), every     *)
(* audio handle (None included) and every variant, a call that was entered *)
(* returns an outcome to the handler.                                      *)
(***************************************************************************)
C14_ClassifierNeverRaises ==
  \A h \in Handlers : Called(h) => ~Has(h, "raise")


(***************************************************************************)
(* C15.  The audio of every accepted /analyze request is stored under a    *)
(* generated name: the 32 hexadecimal digits of a fresh uuid4, "_", and    *)
(* the sanitized original filename.  So no two requests, one after the     *)
(* other or at the same time, get the same stored name, no write goes to a *)
(* name already written, and the stored name is never the original         *)
(* filename.  Checked with two workers (SpecConcurrent).                   *)
(***************************************************************************)
HexDigitSet == {HexDigits[d] : d \in 1..16}

\* name and safe are values: the text of the stored name and the sanitized
\* original filename
GeneratedFrom(name, safe) ==
  /\ Len(name) = 33 + Len(safe)
  /\ \A i \in 1..32 : name[i] \in HexDigitSet
  /\ name[33] = "_"
  /\ SubSeq(name, 34, Len(name)) = safe

C15_StoredNamesDistinct ==
  /\ \A stored \in {[i \in 1..Len(uploads) |-> FilenameText(uploads[i])]} :
       \A i, j \in 1..Len(uploads) : i # j => stored[i] # stored[j]
  /\ \A h1, h2 \in Workers :
       (h1 # h2 /\ unique_filename[h1] # PyNone /\ unique_filename[h2] # PyNone)
         => FilenameText(unique_filename[h1]) # FilenameText(unique_filename[h2])
  /\ \A h \in Workers :
       unique_filename[h] # PyNone =>
         \A name \in {FilenameText(unique_filename[h])},
            safe \in {secure_filename(request[h].files["audio"][2])} :
           /\ name # request[h].files["audio"][2]
           /\ GeneratedFrom(name, safe)

\* two workers hold, at the same time, stored uploads of the same original name
C15_Witness ==
  /\ Len(uploads) = 2
  /\ \A h \in Workers :
       /\ pc[h] \in {"context", "ml_select", "persist", "respond"}
       /\ request[h].files["audio"][2] = F_a_wav
       /\ unique_filename[h] # PyNone


(***************************************************************************)
(* C16.  /mock-analyze, called without audio, always answers with a mock   *)
(* outcome, whatever classifier is configured: prediction one of normal,   *)
(* abnormal, murmur; confidence within [0.6, 0.95]; ml_source 'mock'.      *)
(***************************************************************************)
C16_MockAnalyzeIsMock ==
  \A h \in Handlers :
    (Answered(h) /\ request[h].endpoint = "/mock-analyze") =>
      /\ Field(response[h].body, "prediction")
           \in {PyText(T_normal), PyText(T_abnormal), PyText(T_murmur)}
      /\ Field(response[h].body, "confidence")
           \in {PyInt(c) : c \in 6000..9500}
      /\ Field(response[h].body, "ml_source") = PyStr("mock")


(***************************************************************************)
(* C17.  Every outcome of _mock_analysis has a label among normal,         *)
(* abnormal, murmur, a confidence within [0.6, 0.95], ml_source 'mock',    *)
(* and the risk_level and recommendation of its label.  The outcome of the *)
(* model's own fallback (_mock_prediction) has a confidence within         *)
(* [0.7, 0.95] and is reported with provenance mock as well.               *)
(***************************************************************************)
C17_MockOutcomesInRange ==
  \A h \in Handlers :
    (Returned(h) \/ Answered(h)) =>
      /\ Has(h, "mock") =>
           /\ Field(ml_result[h], "prediction")
                \in {PyText(T_normal), PyText(T_abnormal), PyText(T_murmur)}
           /\ Field(ml_result[h], "confidence") \in {PyInt(c) : c \in 6000..9500}
           /\ Field(ml_result[h], "ml_source") = PyStr("mock")
           /\ Field(ml_result[h], "risk_level")
                = PyStr(DocumentedTier(Field(ml_result[h], "prediction")[2]))
           /\ Field(ml_result[h], "recommendation")
                = PyStr(MockRecommendations[Field(ml_result[h], "risk_level")[2]])
      /\ LocalFailed(h) =>
           /\ Field(ml_result[h], "confidence") \in {PyInt(c) : c \in 7000..9500}
           /\ Field(ml_result[h], "ml_source") = PyStr("mock")


(***************************************************************************)
(* C18.  _format_local_ml_result gives a non-empty analysis_note exactly   *)
(* when the patient's age is present and above 50 and the tier is not      *)
(* 'low'; in every other case (age at most 50, age null or absent, tier    *)
(* low) it gives an empty note, and it does not raise.                     *)
(***************************************************************************)
\* _format_local_ml_result has been applied for the request of h
Formatted(h) == Has(h, "predict") /\ pc[h] # "local_result"

C18_NoteOnlyForOlderAtRisk ==
  \A h \in Handlers :
    Formatted(h) =>
      /\ ~Has(h, "raise")
      /\ IsDict(ml_result[h])
      /\ LET age == DictGet(patient_context[h][2], "age", PyNone)
             flagged == /\ age[1] = "int"
                        /\ age[2] > 50
                        /\ Field(ml_result[h], "risk_level") # PyStr("low")
         IN IF flagged
            THEN Field(ml_result[h], "analysis_note") \notin {PyNone, PyStr("")}
            ELSE Field(ml_result[h], "analysis_note") = PyStr("")


(***************************************************************************)
(* C19.  There is one recommendation text per risk tier: whichever variant *)
(* produced an outcome, the local model or the mock, its recommendation is *)
(* the non-empty text of its risk_level, the same for every outcome of     *)
(* that tier.  The text of a tier is taken from the normalizer's table.    *)
(***************************************************************************)
C19_OneRecommendationPerTier ==
  \A h \in Handlers :
    ((Returned(h) \/ Answered(h)) /\ (Has(h, "mock") \/ FormattedLocally(h))) =>
      LET tier == Field(ml_result[h], "risk_level")[2] IN
      /\ Field(ml_result[h], "recommendation") # PyStr("")
      /\ Field(ml_result[h], "recommendation") = PyStr(recommendations[tier])


(***************************************************************************)
(* C21.  Within one request every collaborator is called at most once and  *)
(* never retried: at most one attempt of the remote API, at most one local *)
(* inference, at most one save and at most one alert; after a remote or    *)
(* local failure the one further classification step is a single mock      *)
(* substitution, not a second attempt.                                     *)
(***************************************************************************)
ClassifierEvents == {"open_failed", "post", "predict", "mock"}

C21_NoRetry ==
  \A h \in Handlers :
    /\ Count(h, "post") + Count(h, "open_failed") + Count(h, "predict") <= 1
    /\ Count(h, "mock") <= 1
    /\ Count(h, "save_screening_result") <= 1
    /\ Count(h, "send_sms_alert") <= 1
    /\ \A i, j \in 1..Len(calls[h]) :
         (i < j /\ calls[h][i][1] = "mock") => calls[h][j][1] \notin ClassifierEvents

\* the remote API was called once, failed, and the mock answered
C21_Witness ==
  \E h \in Handlers :
    /\ Answered(h)
    /\ Count(h, "post") = 1
    /\ RemoteFailed(h)
    /\ Count(h, "mock") = 1
    /\ Count(h, "save_screening_result") = 1


(***************************************************************************)
(* C22.  Requests served at the same time do not interfere.  Under every   *)
(* interleaving of two workers, the context, the saved record and the      *)
(* response of a request hold the patient fields, the stored name and the  *)
(* classification outcome of that request alone; a step of one worker      *)
(* changes nothing another worker holds, and the classifier selection and  *)
(* the model are never written.                                            *)
(***************************************************************************)
Locals(h) ==
  <<pc[h], request[h], unique_filename[h], audio_path[h], patient_context[h],
    model_result[h], ml_result[h], screening_data[h], db_result[h],
    response[h], calls[h]>>

OwnData(h) ==
  LET own == AnalyzeContext(request[h].form) IN
  /\ IsDict(patient_context[h]) => patient_context[h][2] = own
  /\ (FormattedLocally(h) /\ IsDict(ml_result[h])) =>
       Field(ml_result[h], "analysis_note")
         = AnalysisNote(PyDict(own), Field(ml_result[h], "risk_level")[2])
  /\ IsDict(screening_data[h]) =>
       /\ Field(screening_data[h], "patient_id") = own["patient_id"]
       /\ Field(screening_data[h], "patient_name") = own["name"]
       /\ Field(screening_data[h], "age") = own["age"]
       /\ Field(screening_data[h], "audio_filename") = unique_filename[h]
       /\ \A k \in {"prediction", "confidence", "risk_level"} :
            Field(screening_data[h], k) = Field(ml_result[h], k)
  /\ Answered(h) =>
       /\ Field(response[h].body, "audio_file") = unique_filename[h]
       /\ response[h].body = ml_result[h]
  /\ \A w \in Workers \ {h} :
       unique_filename[w] # PyNone => unique_filename[w] # unique_filename[h]

C22_NoInterference ==
  /\ [](\A h \in Workers :
          (pc[h] # "idle" /\ request[h].endpoint = "/analyze"
             /\ unique_filename[h] # PyNone) => OwnData(h))
  /\ [][/\ cfgvars' = cfgvars
        /\ \A h, w \in Workers :
             (h # w /\ Locals(h)' # Locals(h)) => Locals(w)' = Locals(w)]_vars

\* both workers have answered an upload, for patients of different ages
C22_Witness ==
  /\ \A h \in Workers :
       /\ Answered(h)
       /\ request[h].endpoint = "/analyze"
       /\ IsDict(screening_data[h])
  /\ Field(screening_data[1], "age") = PyInt(60)
  /\ Field(screening_data[2], "age") = PyInt(35)


(***************************************************************************)
(* C23.  Every request eventually gets a response: given that every        *)
(* collaborator call returns or times out (SpecLive), a handler that has   *)
(* received a request reaches its returned response, on every failure and  *)
(* fallback path, and does so within a bounded number of collaborator      *)
(* calls (at most seven entries in its log).                               *)
(***************************************************************************)
C23_EveryRequestAnswered ==
  \A h \in Handlers :
    /\ [](Len(calls[h]) <= 7)
    /\ (pc[h] # "idle") ~> (pc[h] = "done")

\* a request answered after the remote API timed out
C23_Witness ==
  \E h \in Handlers :
    /\ pc[h] = "done"
    /\ \E i \in 1..Len(calls[h]) :
         calls[h][i][1] = "post" /\ calls[h][i][2] = "timeout"
    /\ Has(h, "mock")

(***************************************************************************)
(* C24: GET /health always answers 200 with a body that reports the        *)
(* service as 'operational', whatever classifier is configured.            *)
(***************************************************************************)
T_operational == <<"o","p","e","r","a","t","i","o","n","a","l">>

\* word occurs in text
Contains(text, word) ==
  \E i \in 0..(Len(text) - Len(word)) :
    \A j \in 1..Len(word) : text[i + j] = word[j]

\* some text of the body has the word in it
Reports(body, word) ==
  \E k \in DOMAIN body : body[k][1] = "text" /\ Contains(body[k][2], word)

HealthAnswered(h) == pc[h] = "done" /\ request[h].endpoint = "/health"

C24_HealthReportsOperational ==
  \A h \in Handlers :
    HealthAnswered(h) =>
      /\ response[h].status = 200
      /\ Reports(response[h].body[2], T_operational)

(***************************************************************************)
(* C25: POST /mock-analyze answers 200 with a body that has a risk_level,  *)
(* for every request that carries patient fields: sent as a JSON body or   *)
(* as form data, and with any value of age.                                *)
(***************************************************************************)
MockAnalyzeDone(h) == pc[h] = "done" /\ request[h].endpoint = "/mock-analyze"

C25_MockAnalyzeAlwaysAnswers ==
  \A h \in Handlers :
    MockAnalyzeDone(h) =>
      /\ response[h].status = 200
      /\ "risk_level" \in DOMAIN response[h].body[2]

(***************************************************************************)
(* C26: an accepted /analyze request goes through validation, storing the  *)
(* audio, classification, persistence, the conditional alert and the       *)
(* response, in this order and skipping none.  The record handed to        *)
(* persistence has the prediction, confidence and risk_level of the        *)
(* response; persistence is never called before the classifier has given   *)
(* its outcome, and the alert step is never taken before persistence has   *)
(* returned.                                                               *)
(***************************************************************************)
Stage(p) ==
  CASE p = "validate" -> 1
    [] p = "store" -> 2
    [] p = "context" -> 3
    [] p \in {"ml_select", "remote", "local", "local_result", "mock"} -> 4
    [] p = "persist" -> 5
    [] p = "alert" -> 6
    [] p = "respond" -> 7
    [] OTHER -> 0

EventStage(e) ==
  CASE e = "save_audio" -> 2
    [] e = "save_screening_result" -> 5
    [] e = "send_sms_alert" -> 6
    [] OTHER -> 4

OutcomeFields == {"prediction", "confidence", "risk_level"}

SameOutcome(record, result) ==
  \A k \in OutcomeFields :
    DictGet(record[2], k, PyNone) = DictGet(result[2], k, PyNone)

InOrder(h) ==
  /\ \A i, j \in 1..Len(calls[h]) :
       i < j => EventStage(calls[h][i][1]) <= EventStage(calls[h][j][1])
  /\ Stage(pc[h]) > 2 => Has(h, "save_audio")
  /\ Stage(pc[h]) > 4 => Called(h) /\ ~IsNone(ml_result[h])
  /\ Has(h, "save_screening_result") =>
       /\ Called(h)
       /\ IsDict(ml_result[h])
       /\ SameOutcome(screening_data[h], ml_result[h])
  /\ Stage(pc[h]) > 5 \/ Has(h, "send_sms_alert") =>
       Has(h, "save_screening_result") /\ IsDict(db_result[h])
  /\ Answered(h) =>
       /\ Count(h, "save_audio") = 1
       /\ Count(h, "analyze_heart_sound") = 1
       /\ Count(h, "save_screening_result") = 1
       /\ SameOutcome(screening_data[h], response[h].body)

StepInOrder(h) ==
  pc'[h] # pc[h] /\ Stage(pc[h]) > 0 =>
    \/ pc'[h] = "except"
    \/ pc'[h] = "done" /\ response'[h].status = 400 /\ pc[h] = "validate"
    \/ pc'[h] = "done" /\ response'[h].status = 200 /\ pc[h] = "respond"
    \/ Stage(pc'[h]) \in {Stage(pc[h]), Stage(pc[h]) + 1}

C26_StepsInOrder ==
  /\ [](\A h \in Handlers : request[h].endpoint = "/analyze" => InOrder(h))
  /\ [][\A h \in Handlers :
          request[h].endpoint = "/analyze" => StepInOrder(h)]_vars

C26_Witness ==
  \E h \in Handlers :
    /\ Answered(h)
    /\ request[h].endpoint = "/analyze"
    /\ Has(h, "predict")
    /\ DictGet(db_result[h][2], "success", PyNone) = PyBool(TRUE)
    /\ response[h].body[2]["risk_level"] = PyStr("high")

(***************************************************************************)
(* C27: the patient context built by /analyze never has a phone entry,     *)
(* whatever the form carries; so in /analyze the alerting collaborator is  *)
(* never invoked and the response never has sms_sent, even when the tier   *)
(* is 'high' and the form has a phone.                                     *)
(***************************************************************************)
NoKey(v, k) == IsDict(v) => k \notin DOMAIN v[2]

=============================================================================
